---- MODULE Spec2Model ----
(***************************************************************************)
(* vsphere_folder resource (vsphere/resource_vsphere_folder.go): Create,   *)
(* Read and Delete of a folder path in a vSphere inventory tree.           *)
(*                                                                         *)
(* A Go string is a sequence of tokens: the token "/" is the separator,    *)
(* every other token is a run of characters without a slash ("a", "vm",    *)
(* "dc1", ".", "..").  An inventory entity is a pair <<components, kind>>, *)
(* components being the names from the service root down to the entity.    *)
(***************************************************************************)
EXTENDS Integers, Sequences, FiniteSets, TLC

VARIABLES
    inv,          \* the vSphere inventory: set of <<components, kind>>
    d,            \* schema.ResourceData: datacenter, path, existing_path, id
    pc,           \* position of the plugin host / of the running Delete
    last,         \* the last operation that returned and what it returned
    calls,        \* calls the current/last operation issued, in order
    resolved,     \* what the resolving loop of createFolder ended with
    df,           \* deleteFolder: f (datacenter, existingPath, path)
    currentPath,  \* deleteFolder: currentPath
    folder,       \* deleteFolder: folder (an inventory handle, or Nil)
    inv0,         \* the inventory before Create ran
    invPre,       \* the inventory when the current/last Delete started
    fault,        \* the service call that is going to fail, if any
    extLeft,      \* changes of the inventory others are still going to make
    partial       \* the folders made by Creates that did not succeed

vars == <<inv, d, pc, last, calls, resolved, df, currentPath, folder, inv0, invPre,
          fault, extLeft, partial>>

----------------------------------------------------------------------------
(* Bounds *)

MaxDepth == 3     \* segments of the desired path
MaxTrail == 1     \* trailing slashes the configured path may carry
MaxExternal == 1  \* changes of the inventory made by others during the run

----------------------------------------------------------------------------
(* Strings *)

SL == "/"
EmptyStr == <<>>
Dot == <<".">>

Max(S) == CHOOSE x \in S : \A y \in S : y <= x
Min(S) == CHOOSE x \in S : \A y \in S : x <= y

\* strings.TrimRight(s, "/")
RECURSIVE TrimRight(_)
TrimRight(s) ==
    IF s = <<>> \/ s[Len(s)] # SL THEN s
    ELSE TrimRight(SubSeq(s, 1, Len(s) - 1))

\* strings.Index in the place of strings.LastIndex: the first "/"
FirstIndex(s) ==
    LET I == {i \in 1..Len(s) : s[i] = SL}
    IN  IF I = {} THEN -1 ELSE Min(I) - 1

\* strings.LastIndex(s, "/"): 0-based index of the last "/", -1 if none
LastIndex(s) ==
    LET I == {i \in 1..Len(s) : s[i] = SL}
    IN  IF I = {} THEN -1 ELSE Max(I) - 1

\* strings.FieldsFunc(s, c == '/'): the maximal slash-free runs of s
RECURSIVE FieldsFunc(_)
FieldsFunc(s) ==
    IF s = <<>> THEN <<>>
    ELSE IF s[1] = SL THEN FieldsFunc(Tail(s))
    ELSE LET I == {i \in 1..Len(s) : s[i] = SL}
             n == IF I = {} THEN Len(s) + 1 ELSE Min(I)
         IN  <<SubSeq(s, 1, n - 1)>> \o FieldsFunc(SubSeq(s, n, Len(s)))

\* strings.Join(elems, "/")
RECURSIVE JoinSlash(_)
JoinSlash(elems) ==
    IF elems = <<>> THEN <<>>
    ELSE IF Len(elems) = 1 THEN elems[1]
    ELSE elems[1] \o <<SL>> \o JoinSlash(Tail(elems))

\* the element stack of path.Clean: "." dropped, ".." pops (or stays, unrooted)
RECURSIVE CleanElems(_, _, _)
CleanElems(elems, out, rooted) ==
    IF elems = <<>> THEN out
    ELSE LET e == Head(elems)
             rest == Tail(elems)
         IN  IF e = <<".">> THEN CleanElems(rest, out, rooted)
             ELSE IF e = <<"..">>
                  THEN IF out # <<>> /\ out[Len(out)] # <<"..">>
                       THEN CleanElems(rest, SubSeq(out, 1, Len(out) - 1), rooted)
                       ELSE IF rooted THEN CleanElems(rest, out, rooted)
                       ELSE CleanElems(rest, Append(out, e), rooted)
             ELSE CleanElems(rest, Append(out, e), rooted)

\* path.Clean / filepath.Clean (the separator is "/")
Clean(s) ==
    LET rooted == s # <<>> /\ s[1] = SL
        body == JoinSlash(CleanElems(FieldsFunc(s), <<>>, rooted))
    IN  IF rooted THEN <<SL>> \o body
        ELSE IF body = <<>> THEN Dot
        ELSE body

\* filepath.Join(a, b): empty elements are ignored, the result is Cleaned
Join(a, b) ==
    LET elems == SelectSeq(<<a, b>>, LAMBDA e : e # <<>>)
    IN  IF elems = <<>> THEN <<>> ELSE Clean(JoinSlash(elems))

\* filepath.ToSlash: the separator becomes "/"
Separator == "/"
ToSlash(s) == [i \in DOMAIN s |-> IF s[i] = Separator THEN SL ELSE s[i]]

\* filepath.Split(path): <<dir, file>>, cut after the last separator
Split(s) ==
    LET i == LastIndex(s)
    IN  <<SubSeq(s, 1, i + 1), SubSeq(s, i + 2, Len(s))>>

\* path.Dir(p)
Dir(p) == Clean(Split(p)[1])

\* fmt.Sprintf("%v/vm/%v", dc, p)
SprintfVm(dc, p) == dc \o <<SL, "vm", SL>> \o p

\* fmt.Sprintf("%v/%v", dc, p)
SprintfId(dc, p) == dc \o <<SL>> \o p

----------------------------------------------------------------------------
(* The inventory service (govmomi SearchIndex / Finder / Folder) *)

Nil == <<>>

Entity(comps, kind) == <<comps, kind>>
CompsOf(ref) == ref[1]
KindOf(ref) == ref[2]
IsFolder(ref) == ref # Nil /\ KindOf(ref) = "Folder"

\* si.FindByInventoryPath(ctx, path): the entity at path, nil when absent.
\* The service reads a path as its non-empty elements, so a leading or a
\* trailing "/" changes nothing; an empty first element names nothing.
FindByInventoryPath(inventory, path) ==
    LET c == FieldsFunc(path)
        hit == {e \in inventory : CompsOf(e) = c}
    IN  IF hit = {} THEN Nil ELSE CHOOSE e \in hit : TRUE

IsPrefix(p, q) == Len(p) <= Len(q) /\ SubSeq(q, 1, Len(p)) = p

\* Children counting the folders only
ChildFolders(inventory, ref) ==
    {e \in inventory : /\ Len(CompsOf(e)) = Len(CompsOf(ref)) + 1
                       /\ IsPrefix(CompsOf(ref), CompsOf(e))
                       /\ KindOf(e) = "Folder"}

\* folder.Children(ctx)
Children(inventory, ref) ==
    {e \in inventory : Len(CompsOf(e)) = Len(CompsOf(ref)) + 1
                       /\ IsPrefix(CompsOf(ref), CompsOf(e))}

\* folder.Destroy(ctx) and task.Wait(ctx): the folder goes, with all below it
Destroy(inventory, ref) ==
    {e \in inventory : ~IsPrefix(CompsOf(ref), CompsOf(e))}

\* folder.CreateFolder(ctx, name): the new child folder
CreateFolder(ref, name) == Entity(Append(CompsOf(ref), name), "Folder")

Datacenters(inventory) == {e \in inventory : KindOf(e) = "Datacenter"}

\* dc.InventoryPath
InventoryPath(dc) == <<SL>> \o JoinSlash(CompsOf(dc))

\* finder.Datacenter(ctx, name): by name; finder.DefaultDatacenter(ctx): the
\* only one.  Nil stands for the error both return when there is no match.
FinderDatacenter(inventory, name) ==
    LET hit == {e \in Datacenters(inventory) : CompsOf(e)[Len(CompsOf(e))] = name}
    IN  IF Cardinality(hit) = 1 THEN CHOOSE e \in hit : TRUE ELSE Nil

DefaultDatacenter(inventory) ==
    IF Cardinality(Datacenters(inventory)) = 1
    THEN CHOOSE e \in Datacenters(inventory) : TRUE
    ELSE Nil

getDatacenter(inventory, dc) ==
    IF dc # EmptyStr THEN FinderDatacenter(inventory, dc)
    ELSE DefaultDatacenter(inventory)

----------------------------------------------------------------------------
(* Results *)

Ok == [kind |-> "ok", err |-> "", arg |-> EmptyStr]
Error(e, a) == [kind |-> "error", err |-> e, arg |-> a]
Panic(a) == [kind |-> "panic", err |-> "interface conversion", arg |-> a]
NilDeref(a) == [kind |-> "panic", err |-> "nil pointer dereference", arg |-> a]
NoOp == [op |-> "none", res |-> Ok]
Returned(o, r) == [op |-> o, res |-> r]

----------------------------------------------------------------------------
(* Call log *)

Call(c, on, arg) == [call |-> c, on |-> on, arg |-> arg]
CallsOf(log, c) == SelectSeq(log, LAMBDA e : e.call = c)

----------------------------------------------------------------------------
(* Service errors: the n-th call of one kind that an operation issues returns *)
(* err != nil, once                                                           *)

NoFault == [call |-> "none", nth |-> 0]
Fails(c, n) == fault = [call |-> c, nth |-> n]

\* the number the next call of kind c has in the log
NextNth(log, c) == Len(CallsOf(log, c)) + 1

----------------------------------------------------------------------------
(* createFolder *)

\* the walk stopped at the VM root path in the place of the datacenter path
BasePathIsBase(path, dc, base) == path = base

\* if path == dc.InventoryPath: the walk has left the VM root behind
BasePathMissing(path, dc, base) == path = InventoryPath(dc)

\* the creating loop running from the first index to the last
FolderAtAscending(folders, i) == folders[Len(folders) - i + 1]

\* folders[i] of the creating loop, i running from the last index to the first
FolderAt(folders, i) == folders[i]

\* the walk going down to the VM root whatever it finds on the way
MissingBelowBase(ref, path, base) == path # base

\* if ref == nil: nothing at the path, the walk goes on
Missing(ref, path, base) == ref = Nil

\* the resolving loop: look the path up, on a miss keep its last element and
\* go on with the path cut before its last "/"
RECURSIVE ResolveLoop(_, _, _, _, _, _)
ResolveLoop(inventory, dc, base, path, folders, lookups) ==
    LET ref == FindByInventoryPath(inventory, path)
        looked == Append(lookups, path)
    IN  IF ~Missing(ref, path, base)
        THEN [res |-> Ok, ref |-> ref, folders |-> folders, lookups |-> looked]
        ELSE LET name == Split(path)[2]
                 cut == LastIndex(path)
                 parent == SubSeq(path, 1, cut)
                 missing == Append(folders, name)
             IN  IF cut < 0
                 THEN [res |-> Panic(path), ref |-> Nil,
                       folders |-> missing, lookups |-> looked]
                 ELSE IF BasePathMissing(parent, dc, base)
                 THEN [res |-> Error("vSphere base path not found", ToSlash(base)),
                       ref |-> Nil, folders |-> missing, lookups |-> looked]
                 ELSE ResolveLoop(inventory, dc, base, parent, missing, looked)

\* the creating loop: for i := len(folders) - 1; i >= 0; i-- (here i down to 1),
\* each folder created under the one the call before returned
RECURSIVE CreateLoop(_, _, _, _, _)
CreateLoop(inventory, root, folders, i, log) ==
    IF i < 1 THEN [res |-> Ok, inv |-> inventory, calls |-> log]
    ELSE LET name == FolderAt(folders, i)
             child == CreateFolder(root, name)
             logged == Append(log, Call("CreateFolder", CompsOf(root), name))
         IN  IF \/ root \notin inventory
                \/ \E e \in inventory : CompsOf(e) = CompsOf(child)
                \/ Fails("CreateFolder", Len(folders) - i + 1)
             THEN \* root, err = root.CreateFolder(...): err != nil comes with
                  \* a nil root, and the message reads root.InventoryPath
                  [res |-> NilDeref(name), inv |-> inventory, calls |-> logged]
             ELSE CreateLoop(inventory \cup {child}, child, folders, i - 1, logged)

createFolder(inventory, f) ==
    LET dc == IF f.datacenter # EmptyStr
              THEN FinderDatacenter(inventory, f.datacenter)
              ELSE DefaultDatacenter(inventory)
        none == [ref |-> Nil, folders |-> <<>>, lookups |-> <<>>]
    IN  IF dc = Nil
        THEN [res |-> Error("datacenter not found", f.datacenter), f |-> f,
              inv |-> inventory, calls |-> <<>>, resolved |-> none]
        ELSE
        LET base == Join(InventoryPath(dc), <<"vm">>)
            path == ToSlash(Join(base, f.path))
            r == ResolveLoop(inventory, dc, base, path, <<>>, <<>>)
            found == [ref |-> r.ref, folders |-> r.folders, lookups |-> r.lookups]
            finds == [i \in 1..Len(r.lookups) |-> Call("Find", <<>>, r.lookups[i])]
        IN  IF r.res.kind # "ok"
            THEN [res |-> r.res, f |-> f, inv |-> inventory,
                  calls |-> finds, resolved |-> found]
            ELSE IF ~IsFolder(r.ref)
            THEN [res |-> Panic(r.lookups[Len(r.lookups)]), f |-> f,
                  inv |-> inventory, calls |-> finds, resolved |-> found]
            ELSE LET c == CreateLoop(inventory, r.ref, r.folders,
                                     Len(r.folders), finds)
                 IN  [res |-> c.res, f |-> f, inv |-> c.inv,
                      calls |-> c.calls, resolved |-> found]

----------------------------------------------------------------------------
(* Read *)

\* the body of resourceVSphereFolderRead on resource data data
Read(inventory, data) ==
    LET dc == getDatacenter(inventory, data.datacenter)
        path == SprintfVm(data.datacenter, data.path)
        ref == FindByInventoryPath(inventory, path)
        look == <<Call("Find", <<>>, path)>>
    IN  IF dc = Nil
        THEN [res |-> Error("datacenter not found", data.datacenter),
              d |-> data, calls |-> <<>>]
        ELSE IF ref = Nil
        THEN [res |-> Ok, d |-> [data EXCEPT !.id = EmptyStr],
              calls |-> Append(look, Call("SetId", <<>>, EmptyStr))]
        ELSE [res |-> Ok, d |-> data, calls |-> look]

resourceVSphereFolderRead ==
    /\ pc = "ready"
    /\ LET r == Read(inv, d)
       IN  /\ d' = r.d
           /\ calls' = r.calls
           /\ last' = Returned("Read", r.res)
    /\ UNCHANGED <<inv, pc, resolved, df, currentPath, folder, inv0, invPre>>
    /\ UNCHANGED <<fault, extLeft, partial>>

----------------------------------------------------------------------------
(* Create *)

\* Create with the Read it ends in (f, the result of createFolder and that of
\* Read are bound once, by \E over a singleton)
resourceVSphereFolderCreate ==
    /\ pc = "init"
    /\ \E f \in {[path |-> TrimRight(d.path), datacenter |-> d.datacenter, existingPath |-> EmptyStr]} :
       \E c \in {createFolder(inv, f)} :
       \E r \in {Read(c.inv, [d EXCEPT !.existing_path = c.f.existingPath,
                           !.id = SprintfId(c.f.datacenter, c.f.path)])} :
       LET set == <<Call("Set existing_path", <<>>, c.f.existingPath),
                    Call("SetId", <<>>, SprintfId(c.f.datacenter, c.f.path))>>
       IN  /\ inv0' = inv
           /\ inv' = c.inv
           /\ resolved' = c.resolved
           /\ IF c.res.kind # "ok"
              THEN /\ d' = d
                   /\ calls' = c.calls
                   /\ last' = Returned("Create", c.res)
                   /\ pc' = IF c.res.kind = "panic" THEN "crashed" ELSE "init"
              ELSE /\ d' = r.d
                   /\ calls' = c.calls \o set \o r.calls
                   /\ last' = Returned("Create", r.res)
                   /\ pc' = IF r.res.kind = "ok" THEN "ready" ELSE "init"
           /\ fault' = IF /\ fault.call = "CreateFolder"
                          /\ Len(CallsOf(c.calls, "CreateFolder")) >= fault.nth
                       THEN NoFault ELSE fault
           /\ partial' = IF c.res.kind # "ok" THEN partial \cup (c.inv \ inv)
                         ELSE partial
    /\ UNCHANGED <<df, currentPath, folder, invPre, extLeft>>

----------------------------------------------------------------------------
(* Delete *)

\* err := deleteFolder(client, &f); if err != nil { return err }
ReturnNil(e, a) == Returned("Delete", Ok)
ReturnErr(e, a) == Returned("Delete", Error(e, a))

\* resourceVSphereFolderDelete up to the loop of deleteFolder: f is built, the
\* datacenter resolved, the leaf looked up and asserted to be a folder
DeleteStart ==
    /\ pc = "ready"
    /\ LET f == [path |-> TrimRight(d.path),
                 existingPath |-> d.existing_path,
                 datacenter |-> d.datacenter]
           dc == getDatacenter(inv, f.datacenter)
           path == SprintfVm(f.datacenter, f.path)
           folderRef == FindByInventoryPath(inv, path)
       IN  /\ df' = f
           /\ currentPath' = f.path
           /\ invPre' = inv
           /\ IF dc = Nil
              THEN /\ calls' = <<>>
                   /\ folder' = Nil
                   /\ last' = ReturnErr("datacenter not found", f.datacenter)
                   /\ pc' = "ready"
                   /\ fault' = fault
              ELSE /\ calls' = <<Call("Find", <<>>, path)>>
                   /\ IF Fails("Find", 1)
                      THEN /\ folder' = Nil
                           /\ last' = ReturnErr("could not locate folder", f.path)
                           /\ pc' = "ready"
                           /\ fault' = NoFault
                      ELSE IF IsFolder(folderRef)
                      THEN /\ folder' = folderRef
                           /\ last' = last
                           /\ pc' = "loop"
                           /\ fault' = fault
                      ELSE /\ folder' = Nil
                           /\ last' = Returned("Delete", Panic(path))
                           /\ pc' = "crashed"
                           /\ fault' = fault
    /\ UNCHANGED <<inv, d, resolved, inv0, extLeft, partial>>

\* the loop condition is false: deleteFolder returns nil, the id is cleared
DeleteReturn ==
    /\ pc = "loop"
    /\ currentPath = df.existingPath
    /\ d' = [d EXCEPT !.id = EmptyStr]
    /\ calls' = Append(calls, Call("SetId", <<>>, EmptyStr))
    /\ last' = Returned("Delete", Ok)
    /\ pc' = "done"
    /\ UNCHANGED <<inv, resolved, df, currentPath, folder, inv0, invPre>>
    /\ UNCHANGED <<fault, extLeft, partial>>

\* the loop body up to the emptiness test
DeleteChildren ==
    /\ pc = "loop"
    /\ currentPath # df.existingPath
    /\ calls' = Append(calls, Call("Children", CompsOf(folder), EmptyStr))
    /\ IF Fails("Children", NextNth(calls, "Children"))
       THEN /\ last' = ReturnErr("children", currentPath)
            /\ pc' = "ready"
            /\ fault' = NoFault
       ELSE IF folder \notin inv
       THEN /\ last' = ReturnErr("managed object not found", currentPath)
            /\ pc' = "ready"
            /\ fault' = fault
       ELSE IF Children(inv, folder) # {}
       THEN /\ last' = ReturnErr("non-empty", currentPath)
            /\ pc' = "ready"
            /\ fault' = fault
       ELSE /\ last' = last
            /\ pc' = "destroy"
            /\ fault' = fault
    /\ UNCHANGED <<inv, d, resolved, df, currentPath, folder, inv0, invPre>>
    /\ UNCHANGED <<extLeft, partial>>

\* the loop body from the parent path to Destroy and Wait.  A Destroy that
\* fails leaves the folder; a Wait that fails may have destroyed it or not.
DeleteDestroy ==
    /\ pc = "destroy"
    /\ LET parent == IF Dir(currentPath) = Dot THEN EmptyStr ELSE Dir(currentPath)
           n == NextNth(calls, "Destroy")
       IN  /\ currentPath' = parent
           /\ calls' = Append(calls, Call("Destroy", CompsOf(folder), EmptyStr))
           /\ IF Fails("Destroy", n)
              THEN /\ inv' = inv
                   /\ last' = ReturnErr("destroy", currentPath)
                   /\ pc' = "ready"
                   /\ fault' = NoFault
              ELSE IF folder \notin inv
              THEN /\ inv' = inv
                   /\ last' = ReturnErr("managed object not found", currentPath)
                   /\ pc' = "ready"
                   /\ fault' = fault
              ELSE IF Fails("Wait", n)
              THEN /\ inv' \in {inv, Destroy(inv, folder)}
                   /\ last' = ReturnErr("wait", currentPath)
                   /\ pc' = "ready"
                   /\ fault' = NoFault
              ELSE /\ inv' = Destroy(inv, folder)
                   /\ last' = last
                   /\ pc' = "lookup"
                   /\ fault' = fault
    /\ UNCHANGED <<d, resolved, df, folder, inv0, invPre, extLeft, partial>>

\* the end of the loop body: the parent is looked up; the folder held is
\* replaced only if something is found
DeleteLookup ==
    /\ pc = "lookup"
    /\ LET path == SprintfVm(df.datacenter, currentPath)
           folderRef == FindByInventoryPath(inv, path)
       IN  /\ calls' = Append(calls, Call("Find", <<>>, path))
           /\ IF Fails("Find", NextNth(calls, "Find"))
              THEN /\ folder' = folder
                   /\ last' = ReturnErr("find", currentPath)
                   /\ pc' = "ready"
                   /\ fault' = NoFault
              ELSE IF folderRef = Nil
              THEN /\ folder' = folder
                   /\ last' = last
                   /\ pc' = "loop"
                   /\ fault' = fault
              ELSE IF IsFolder(folderRef)
              THEN /\ folder' = folderRef
                   /\ last' = last
                   /\ pc' = "loop"
                   /\ fault' = fault
              ELSE /\ folder' = folder
                   /\ last' = Returned("Delete", Panic(path))
                   /\ pc' = "crashed"
                   /\ fault' = fault
    /\ UNCHANGED <<inv, d, resolved, df, currentPath, inv0, invPre, extLeft, partial>>

----------------------------------------------------------------------------
(* Initial states *)

SegNames == <<"a", "b", "c", "d", "e", "f">>
DcName == <<"dc1">>
NoDcName == <<"dc2">>
ExtraName == <<"x">>

\* the first n segment names
Segs(n) == [i \in 1..n |-> <<SegNames[i]>>]

\* a configured path of n segments followed by t slashes
ConfigPath(n, t) == JoinSlash(Segs(n)) \o [i \in 1..t |-> SL]
ConfigPaths == {ConfigPath(n, t) : n \in 0..MaxDepth, t \in 0..MaxTrail}

VmRoot == <<DcName, <<"vm">>>>
TheDatacenter == Entity(<<DcName>>, "Datacenter")

\* the VM root and the folders of the first k segments under it
Chain(k) == {Entity(VmRoot \o Segs(j), "Folder") : j \in 0..k}

\* one datacenter; its VM root or not; under the root the folders of the first
\* k segments; possibly one more entity, of either kind, in one of them (its
\* name is no segment name: what lies on the path is a folder)
Inventories ==
    {{TheDatacenter}}
    \cup {{TheDatacenter} \cup Chain(k) : k \in 0..MaxDepth}
    \cup {{TheDatacenter} \cup Chain(k)
              \cup {Entity(VmRoot \o Segs(j) \o <<ExtraName>>, kind)} :
          k \in 0..MaxDepth, j \in 0..MaxDepth,
          kind \in {"Folder", "VirtualMachine"}}

NoResolved == [ref |-> Nil, folders |-> <<>>, lookups |-> <<>>]
NoF == [path |-> EmptyStr, existingPath |-> EmptyStr, datacenter |-> EmptyStr]

\* no service error, nobody else at work
Quiet ==
    /\ fault = NoFault
    /\ extLeft = 0
    /\ partial = {}

InitResource ==
    /\ inv \in {i \in Inventories :
                   \A e \in i : CompsOf(e) = <<DcName>>
                                \/ \E p \in i : CompsOf(p) = SubSeq(CompsOf(e), 1,
                                                                  Len(CompsOf(e)) - 1)}
    /\ d \in [datacenter : {EmptyStr, DcName, NoDcName},
              path : ConfigPaths,
              existing_path : {EmptyStr},
              id : {EmptyStr}]
    /\ pc = "init"
    /\ last = NoOp
    /\ calls = <<>>
    /\ resolved = NoResolved
    /\ df = NoF
    /\ currentPath = EmptyStr
    /\ folder = Nil
    /\ inv0 = inv
    /\ invPre = inv

Init == InitResource /\ Quiet

Next ==
    \/ resourceVSphereFolderCreate
    \/ resourceVSphereFolderRead
    \/ DeleteStart
    \/ DeleteReturn
    \/ DeleteChildren
    \/ DeleteDestroy
    \/ DeleteLookup

Spec == Init /\ [][Next]_vars

----------------------------------------------------------------------------
(* deleteFolder on any persisted state: the boundary is any component-wise   *)
(* prefix of the path, the inventory any of the initial ones                 *)

RelPath(k) == JoinSlash(Segs(k))

\* the state a run before left behind.  The boundary is a component-wise
\* prefix of the path or, with anyBoundary, any path: one longer than the path,
\* or one that shares nothing with it.
Persisted(anyBoundary) ==
    /\ inv \in {i \in Inventories :
                   \A e \in i : CompsOf(e) = <<DcName>>
                                \/ \E p \in i : CompsOf(p) = SubSeq(CompsOf(e), 1,
                                                                  Len(CompsOf(e)) - 1)}
    /\ \E n \in 0..MaxDepth, t \in 0..MaxTrail, k \in 0..MaxDepth,
          dc \in {EmptyStr, DcName, NoDcName} :
          /\ k <= n \/ anyBoundary
          /\ \E b \in {RelPath(k)} \cup (IF anyBoundary THEN {ExtraName} ELSE {}) :
                d = [datacenter |-> dc, path |-> ConfigPath(n, t),
                     existing_path |-> b, id |-> SprintfId(dc, RelPath(n))]
    /\ pc = "ready"
    /\ last = NoOp
    /\ calls = <<>>
    /\ resolved = NoResolved
    /\ df = NoF
    /\ currentPath = EmptyStr
    /\ folder = Nil
    /\ inv0 = inv
    /\ invPre = inv

InitPrune == Persisted(FALSE) /\ Quiet

NextPrune ==
    \/ DeleteStart
    \/ DeleteReturn
    \/ DeleteChildren
    \/ DeleteDestroy
    \/ DeleteLookup

SpecPrune == InitPrune /\ [][NextPrune]_vars

----------------------------------------------------------------------------
(* deleteFolder with any boundary *)

InitPruneAny == Persisted(TRUE) /\ Quiet

SpecPruneAny == InitPruneAny /\ [][NextPrune]_vars

----------------------------------------------------------------------------
(* The operations with one service call that fails.  In Create it is a      *)
(* CreateFolder call; in Delete a lookup, a Children query, a Destroy call   *)
(* or the wait for its task.  After a crash the host starts the provider     *)
(* again: a resource whose Create crashed is not in the state and is created *)
(* again, one whose Delete crashed is still in the state.                    *)

FaultCalls == {"CreateFolder", "Find", "Children", "Destroy", "Wait"}
Faults == {NoFault} \cup [call : FaultCalls, nth : 1..MaxDepth]

HostRestart ==
    /\ pc = "crashed"
    /\ pc' = IF last.op = "Create" THEN "init" ELSE "ready"
    /\ UNCHANGED <<inv, d, last, calls, resolved, df, currentPath, folder, inv0,
                   invPre, fault, extLeft, partial>>

InitFault ==
    /\ InitResource
    /\ fault \in Faults
    /\ extLeft = 0
    /\ partial = {}

NextFault ==
    \/ resourceVSphereFolderCreate
    \/ resourceVSphereFolderRead
    \/ DeleteStart
    \/ DeleteReturn
    \/ DeleteChildren
    \/ DeleteDestroy
    \/ DeleteLookup
    \/ HostRestart

SpecFault == InitFault /\ [][NextFault]_vars

----------------------------------------------------------------------------
(* deleteFolder while somebody else works on the inventory: a virtual        *)
(* machine is put into a folder, or a folder below the VM root is destroyed  *)
(* with all it holds                                                         *)

ExternalAdd ==
    /\ extLeft > 0
    /\ \E p \in {e \in inv : IsFolder(e)} :
          LET vm == Entity(CompsOf(p) \o <<ExtraName>>, "VirtualMachine")
          IN  /\ \A e \in inv : CompsOf(e) # CompsOf(vm)
              /\ inv' = inv \cup {vm}
    /\ extLeft' = extLeft - 1
    /\ UNCHANGED <<d, pc, last, calls, resolved, df, currentPath, folder, inv0,
                   invPre, fault, partial>>

ExternalRemove ==
    /\ extLeft > 0
    /\ \E e \in {e \in inv : IsFolder(e) /\ Len(CompsOf(e)) > Len(VmRoot)} :
          inv' = Destroy(inv, e)
    /\ extLeft' = extLeft - 1
    /\ UNCHANGED <<d, pc, last, calls, resolved, df, currentPath, folder, inv0,
                   invPre, fault, partial>>

InitExt ==
    /\ Persisted(FALSE)
    /\ fault = NoFault
    /\ extLeft = MaxExternal
    /\ partial = {}

NextExt ==
    \/ DeleteStart
    \/ DeleteReturn
    \/ DeleteChildren
    \/ DeleteDestroy
    \/ DeleteLookup
    \/ ExternalAdd
    \/ ExternalRemove

SpecExt == InitExt /\ [][NextExt]_vars

----------------------------------------------------------------------------
(* What the properties speak of *)

\* the number of segments of the configured path
Depth == CHOOSE n \in 0..MaxDepth : \E t \in 0..MaxTrail : d.path = ConfigPath(n, t)

\* the folder of the first j segments of the path, under the VM root of the
\* datacenter in use
OnPath(j) == Entity(VmRoot \o Segs(j), "Folder")

VmRootExists(I) == OnPath(0) \in I
DatacenterResolves == d.datacenter \in {EmptyStr, DcName}

\* how many segments of the path exist in inventory I
ExistingDepth(I) == Max({j \in 0..Depth : \A i \in 0..j : OnPath(i) \in I})

HasChild(I, ref) ==
    \E e \in I : /\ Len(CompsOf(e)) = Len(CompsOf(ref)) + 1
                 /\ SubSeq(CompsOf(e), 1, Len(CompsOf(ref))) = CompsOf(ref)

\* in I the folder of the first j segments holds at most the next one
OnlyOnPathChild(I, j) ==
    \A e \in I : (/\ Len(CompsOf(e)) = Len(CompsOf(OnPath(j))) + 1
                  /\ SubSeq(CompsOf(e), 1, Len(CompsOf(OnPath(j)))) = CompsOf(OnPath(j)))
                 => (j < Depth /\ e = OnPath(j + 1))

Targets(log, c) == [i \in 1..Len(CallsOf(log, c)) |-> CallsOf(log, c)[i].on]

\* the folders of segments k+1..n, the deepest first
LeafToRoot(k, n) == [i \in 1..(n - k) |-> CompsOf(OnPath(n - i + 1))]

\* Create, or Delete, has just returned (or crashed)
CreateReturned == last.op = "Create" /\ pc \in {"init", "ready", "crashed"}
CreateSucceeded == CreateReturned /\ last.res.kind = "ok"
DeleteEnded == last.op = "Delete" /\ pc \in {"ready", "done", "crashed"}

----------------------------------------------------------------------------
(* Properties *)

\* C1: when Create succeeds, the persisted existing_path is the longest
\* component-wise prefix of path that existed in the inventory before Create
\* ran (the VM root, the empty relative path, when nothing below it existed).
C1_ExistingPathIsLongestPrefix ==
    CreateSucceeded => d.existing_path = RelPath(ExistingDepth(inv0))

\* C2: Delete, run on the state Create persisted, never destroys an entity that
\* existed before Create ran.
C2_PreExistingSurvive ==
    \A e \in inv0 : e \in inv

\* C3: prune with a boundary that is a proper prefix of the path, every folder
\* below the boundary on the path holding at most its on-path child: the
\* Destroy calls are exactly the folders below the boundary, leaf first, and
\* neither Children nor Destroy is ever called on the boundary folder.
C3_PruneLeafToRoot ==
    \A k \in 0..MaxDepth :
        (/\ DeleteEnded
         /\ k < Depth
         /\ df.existingPath = RelPath(k)
         /\ \A j \in (k + 1)..Depth : OnPath(j) \in invPre /\ OnlyOnPathChild(invPre, j))
        => /\ Targets(calls, "Destroy") = LeafToRoot(k, Depth)
           /\ \A i \in 1..Len(calls) :
                  calls[i].call \in {"Children", "Destroy"}
                      => calls[i].on # CompsOf(OnPath(k))

\* C4: when pruning is at a folder strictly below the boundary that has a
\* child, the next step returns the non-empty error naming that folder, with
\* no Destroy of it or of an ancestor, the folders destroyed before staying
\* destroyed, the inventory and the resource data (the id) left as they are.
C4_NonEmptyAborts ==
    [][\A k \in 0..MaxDepth, j \in 0..MaxDepth :
          (/\ pc = "loop"
           /\ df.existingPath = RelPath(k)
           /\ folder = OnPath(j)
           /\ k < j
           /\ folder \in inv
           /\ HasChild(inv, folder))
          => /\ last' = Returned("Delete", Error("non-empty", RelPath(j)))
             /\ pc' = "ready"
             /\ inv' = inv
             /\ d' = d
             /\ \A i \in 1..Len(calls') :
                    /\ calls'[i].call # "SetId"
                    /\ calls'[i].call = "Destroy"
                           => /\ ~IsPrefix(calls'[i].on, CompsOf(folder))
                              /\ \A e \in inv' : CompsOf(e) # calls'[i].on]_vars

C4_Witness ==
    /\ DeleteEnded
    /\ pc = "ready"
    /\ df.existingPath = RelPath(1)
    /\ last.res = Error("non-empty", RelPath(2))
    /\ Targets(calls, "Destroy") = <<CompsOf(OnPath(3))>>
    /\ OnPath(3) \notin inv
    /\ OnPath(2) \in inv
    /\ d.id # EmptyStr

\* C5: if the persisted existing_path equals the path, Delete issues no
\* Children and no Destroy call, leaves the inventory as it is and returns
\* success with the id cleared.
C5_NoOpAtBoundary ==
    (DeleteEnded /\ df.existingPath = df.path)
    => /\ CallsOf(calls, "Children") = <<>>
       /\ CallsOf(calls, "Destroy") = <<>>
       /\ inv = invPre
       /\ pc = "done"
       /\ last.res = Ok
       /\ d.id = EmptyStr


C8_MissingVmRootFails ==
    (CreateReturned /\ ~VmRootExists(inv0))
    => /\ last.res.kind = "error"
       /\ last.res.err \in {"vSphere base path not found", "datacenter not found"}
       /\ DatacenterResolves
              => last.res = Error("vSphere base path not found",
                                  <<SL>> \o DcName \o <<SL, "vm">>)
       /\ CallsOf(calls, "CreateFolder") = <<>>
       /\ CallsOf(calls, "Set existing_path") = <<>>
       /\ CallsOf(calls, "SetId") = <<>>
       /\ inv = inv0
       /\ d.existing_path = EmptyStr
       /\ d.id = EmptyStr

C8_Witness ==
    /\ CreateReturned
    /\ ~VmRootExists(inv0)
    /\ d.datacenter = EmptyStr
    /\ Depth = 2
    /\ last.res.err = "vSphere base path not found"

\* C9: when Create returns success the id is set, non-empty, to
\* "<datacenter>/<path>" with the name of the datacenter in use (the default
\* datacenter's name when the datacenter field is empty).
C9_IdentityNamesDatacenter ==
    CreateSucceeded
    => /\ d.id # EmptyStr
       /\ d.id = DcName \o <<SL>> \o RelPath(Depth)

\* C10: the path Read and Delete look up is the leaf folder Create produced,
\* also with the datacenter field empty: after a successful Create Read finds
\* it, and Delete of a path of which nothing existed destroys its folders leaf
\* first, succeeds and clears the id.
C10_SameDatacenterEverywhere ==
    /\ CreateSucceeded
           => /\ FindByInventoryPath(inv, SprintfVm(d.datacenter, d.path)) = OnPath(Depth)
              /\ CallsOf(calls, "SetId")[Len(CallsOf(calls, "SetId"))].arg # EmptyStr
    /\ (/\ DeleteEnded
        /\ inv0 = {TheDatacenter, OnPath(0)}
        /\ invPre = inv0 \cup {OnPath(j) : j \in 1..Depth})
           => /\ pc = "done"
              /\ last.res = Ok
              /\ Targets(calls, "Destroy") = LeafToRoot(0, Depth)
              /\ d.id = EmptyStr

\* a CreateFolder call of the Create that has just ended failed: it issued
\* more creation calls than it made folders
CreationFailed ==
    /\ CreateReturned
    /\ Len(CallsOf(calls, "CreateFolder")) > Cardinality(inv \ inv0)

\* C11: when the k-th CreateFolder call of a Create fails, Create returns an
\* error that names the parent folder, that call is the last one it issued,
\* the k-1 folders made before it are left in place, and neither
\* existing_path nor the id is set.
C11_CreateFolderFailureReturned ==
    CreationFailed
    => /\ last.res.kind = "error"
       /\ calls[Len(calls)].call = "CreateFolder"
       /\ last.res.arg = calls[Len(calls)].on
       /\ Cardinality(inv \ inv0) = Len(CallsOf(calls, "CreateFolder")) - 1
       /\ d.id = EmptyStr
       /\ d.existing_path = EmptyStr

\* a step in which Read ran: on its own, or as the return of a Create whose
\* folders were made
ReadRan ==
    \/ resourceVSphereFolderRead
    \/ /\ resourceVSphereFolderCreate
       /\ \E i \in 1..Len(calls') : calls'[i].call = "Set existing_path"

\* C12: Read changes nothing in the inventory.  When the folder of the path
\* exists Read leaves the id, path, datacenter and existing_path as they are
\* (it never clears the id); when the folder is absent Read clears the id and
\* returns no error.
C12_ReadOnlyChecksExistence ==
    [][(ReadRan /\ DatacenterResolves)
       => /\ resourceVSphereFolderRead => inv' = inv
          /\ IF OnPath(Depth) \in inv'
             THEN /\ resourceVSphereFolderRead => d' = d
                  /\ \A i \in 1..Len(calls') :
                        ~(calls'[i].call = "SetId" /\ calls'[i].arg = EmptyStr)
             ELSE /\ d'.id = EmptyStr
                  /\ last'.res = Ok]_vars

\* a step of Delete
DeleteStep ==
    DeleteStart \/ DeleteReturn \/ DeleteChildren \/ DeleteDestroy \/ DeleteLookup

\* the step issues the call that fails
FaultStrikes == fault # NoFault /\ fault' = NoFault

\* the step queries a folder that holds something
NonEmptyFound ==
    /\ DeleteChildren
    /\ ~FaultStrikes
    /\ folder \in inv
    /\ Children(inv, folder) # {}

\* C13: Delete clears the id exactly when it returns success.  When a lookup,
\* a Children query, a Destroy call or the wait for its task fails, or a
\* folder holds something, Delete returns an error in that step: the failing
\* call is the last one it issues, nothing but the folder of a Destroy whose
\* wait failed leaves the inventory, and the resource data are untouched.
C13_IdClearedIffSuccess ==
    [][DeleteStep
       => /\ (\E i \in 1..Len(calls') : calls'[i].call = "SetId") <=> pc' = "done"
          /\ pc' = "done" => last' = Returned("Delete", Ok) /\ d'.id = EmptyStr
          /\ pc' # "done" => d' = d
          /\ (FaultStrikes \/ NonEmptyFound)
             => /\ last'.op = "Delete"
                /\ last'.res.kind = "error"
                /\ pc' = "ready"
                /\ calls'[Len(calls')].call \in {"Find", "Children", "Destroy"}
                /\ Len(calls') = IF DeleteStart THEN 1 ELSE Len(calls) + 1
                /\ inv' = inv \/ (fault.call = "Wait" /\ inv' = Destroy(inv, folder))]_vars

\* a Destroy call failed after one folder had been destroyed: the error is
\* returned and the id is still set
C13_Witness ==
    /\ pc = "ready"
    /\ last = ReturnErr("destroy", RelPath(1))
    /\ Len(CallsOf(calls, "Destroy")) = 2
    /\ OnPath(2) \notin inv
    /\ OnPath(1) \in inv
    /\ d.id # EmptyStr

\* the Create that has just ended came after one that had made folders and
\* then failed; those folders were there when it started
RetriedCreate ==
    /\ CreateReturned
    /\ partial # {}
    /\ partial \subseteq inv0

\* C16: a Create that follows one that failed partway issues creation calls
\* only for segments missing when it starts, one for each of them and none
\* for a segment the failed attempt made, and when it succeeds every folder
\* of the path exists.
C16_RetryCreatesOnlyMissing ==
    RetriedCreate
    => /\ \A i \in 1..Len(CallsOf(calls, "CreateFolder")) :
             LET c == CallsOf(calls, "CreateFolder")[i]
             IN  \A e \in inv0 : CompsOf(e) # Append(c.on, c.arg)
       /\ resolved.ref = OnPath(ExistingDepth(inv0))
       /\ last.res.kind = "ok"
          => /\ Len(CallsOf(calls, "CreateFolder")) = Depth - ExistingDepth(inv0)
             /\ \A j \in 0..Depth : OnPath(j) \in inv

\* the second CreateFolder call of a Create of a/b/c failed, a was left;
\* the next Create made b and c
C16_Witness ==
    /\ RetriedCreate
    /\ last.res = Ok
    /\ partial = {OnPath(1)}
    /\ Targets(calls, "CreateFolder") = <<CompsOf(OnPath(1)), CompsOf(OnPath(2))>>
    /\ OnPath(3) \in inv

\* C14: whatever others put into the folders of the path while Delete runs,
\* a folder holds nothing at the moment Delete destroys it.
C14_DestroyedWhenEmpty ==
    [][(DeleteDestroy /\ inv' # inv) => ~HasChild(inv, folder)]_vars

\* C15: every iteration of the pruning loop shortens the current path, and
\* the loop runs at most as many iterations as the path has segments,
\* whatever the persisted boundary is.
C15_PrunerBounded ==
    [][/\ DeleteChildren => Len(CallsOf(calls', "Children")) <= Depth
       /\ DeleteDestroy => Len(currentPath') < Len(currentPath)]_vars

\* C17: no operation ends in a crash: each returns success or an error.
C17_NeverCrashes ==
    pc # "crashed" /\ last.res.kind # "panic"

\* what the inventory has at path p below the VM root of the datacenter in use
LiveAt(I, p) == FindByInventoryPath(I, SprintfVm(DcName, p))

\* C18: when the loop goes into another iteration after the lookup of the
\* parent, the folder it holds is the folder the inventory has at the current
\* path, not the one just destroyed.
C18_HandleIsLive ==
    [][(DeleteLookup /\ pc' = "loop" /\ currentPath' # df.existingPath)
       => /\ folder' # Nil
          /\ folder' = LiveAt(inv', currentPath')]_vars

====
